---- MODULE Spec2Model ----
(***************************************************************************)
(* A model of the Wordware MCP bridge: the SSE stream consumer             *)
(* (WordwareClient._process_sse_stream_with_client), the run submitter     *)
(* (WordwareClient.run_generic_tool), and of DynamicMCPServer the tool     *)
(* registration and the input normalizer and result materializer of the    *)
(* dynamically created tool function.                                      *)
(***************************************************************************)
EXTENDS Integers, Sequences, FiniteSets, TLC

(***************************************************************************)
(* Bounds of the model and program constants.                              *)
(***************************************************************************)
\* Most lines the stream delivers in one run.
MaxLines == 3
\* Most clock ticks in one run.
MaxTicks == 2
\* Most lines each of the concurrent streams delivers.
MaxConcurrentLines == 2
\* Seconds by which one tick advances the event-loop clock.
TickSeconds == 180
\* client.py:431  max_wait_time = 180
max_wait_time == 180

(***************************************************************************)
(* JSON values.  A value is a record [t, s]: t is the JSON type, s the     *)
(* content (for a string, its text as a sequence of fragments, so that     *)
(* concatenation is \o and order is visible).                              *)
(***************************************************************************)
JStr(s) == [t |-> "str", s |-> s]
JObj(s) == [t |-> "obj", s |-> s]
JNum(s) == [t |-> "num", s |-> s]
\* A key that the JSON object does not carry.
NoValue == [t |-> "none", s |-> <<>>]
NoField == "--"

\* Python's {} and "".
EmptyDict == JObj(<<>>)
EmptyStr == JStr(<<>>)

\* A Python dict with string keys: a function on the set of its keys.
EmptyMap == [k \in {} |-> NoValue]
Put(m, k, v) == [q \in DOMAIN m \cup {k} |-> IF q = k THEN v ELSE m[q]]

(***************************************************************************)
(* Lines of the stream.  A line is described by what the consumer's tests  *)
(* see of it:                                                              *)
(*   prefix  line.startswith('data:')                                      *)
(*   body    what json.loads makes of line[5:].strip(): "blank" (empty     *)
(*           payload), "malformed" (JSONDecodeError), "scalar" (valid      *)
(*           JSON that is no object), "object"                             *)
(*   type, path, value, status: the object's keys (NoField/NoValue when    *)
(*           absent)                                                       *)
(*   dtype   the `delta` key: NoField (absent), "nonobject", or the        *)
(*           delta object's own `type`                                     *)
(*   dvalue  the delta object's `value`                                    *)
(*   data    the `data` key: NoField (absent), "null", or "object"         *)
(*   output  data.output (NoValue when absent)                             *)
(***************************************************************************)
BaseLine ==
    [prefix |-> TRUE, body |-> "object", type |-> NoField, path |-> NoField,
     value |-> NoValue, dtype |-> NoField, dvalue |-> NoValue,
     status |-> NoField, data |-> NoField, output |-> NoValue]

CompletedType == "ai.wordware.run.completed.v1"

Paths == {"a", "c"}
Values == {JObj(<<"k">>), JStr(<<"w">>)}
Fragments == {JStr(<<"Hel">>), JStr(<<"lo">>)}
Outputs == {JStr(<<"final">>), JObj(<<"result">>)}

FramingLines ==
    { [BaseLine EXCEPT !.prefix = FALSE],
      [BaseLine EXCEPT !.body = "blank"],
      [BaseLine EXCEPT !.body = "malformed"],
      [BaseLine EXCEPT !.body = "scalar"] }

ValueLines ==
    { [BaseLine EXCEPT !.type = "value", !.path = p, !.value = v] :
        p \in Paths, v \in Values }
    \cup { [BaseLine EXCEPT !.type = "value", !.value = JObj(<<"k">>)],
           [BaseLine EXCEPT !.type = "value", !.path = "a"] }

DeltaLines ==
    { [BaseLine EXCEPT !.type = "delta", !.path = "c", !.dtype = "text", !.dvalue = f] :
        f \in Fragments }
    \cup { [BaseLine EXCEPT !.type = "delta", !.path = "a", !.dtype = "text",
                            !.dvalue = JStr(<<"Hel">>)],
           [BaseLine EXCEPT !.type = "delta", !.dtype = "text",
                            !.dvalue = JStr(<<"Hel">>)],
           [BaseLine EXCEPT !.type = "delta", !.path = "c", !.dtype = "image",
                            !.dvalue = JStr(<<"Hel">>)],
           [BaseLine EXCEPT !.type = "delta", !.path = "c", !.dtype = "nonobject"],
           [BaseLine EXCEPT !.type = "delta", !.path = "c", !.dtype = "text",
                            !.dvalue = JNum(<<"5">>)] }

StatusLines ==
    { [BaseLine EXCEPT !.type = "status", !.status = "completed"],
      [BaseLine EXCEPT !.type = "status", !.status = "running"] }

CompletionLines ==
    { [BaseLine EXCEPT !.type = CompletedType, !.data = "object", !.output = o] :
        o \in Outputs }
    \cup { [BaseLine EXCEPT !.type = CompletedType],
           [BaseLine EXCEPT !.type = CompletedType, !.data = "object"],
           [BaseLine EXCEPT !.type = CompletedType, !.data = "null"] }

OtherLines == { [BaseLine EXCEPT !.type = "ping"] }

Lines ==
    FramingLines \cup ValueLines \cup DeltaLines \cup StatusLines
        \cup CompletionLines \cup OtherLines

(***************************************************************************)
(* Tool arguments.  A string is a sequence of fragments, Backtick being    *)
(* one backtick character; an argument value is a record [t, s, m]: t its  *)
(* Python type, s the text of a str, m the mapping of a dict.              *)
(***************************************************************************)
Backtick == "BACKTICK"
AStr(s) == [t |-> "str", s |-> s, m |-> EmptyMap]
ANum(s) == [t |-> "num", s |-> s, m |-> EmptyMap]
ADict(m) == [t |-> "dict", s |-> <<>>, m |-> m]
KwargsKey == <<"kwargs">>
Arg(k, v) == [k |-> k, v |-> v]

\* The keyword arguments a caller passes, in the order given.
ArgLists ==
    { <<>>,
      <<Arg(<<"a">>, ANum(<<"1">>)), Arg(<<"b">>, ANum(<<"2">>))>>,
      <<Arg(<<Backtick, "name", Backtick>>, AStr(<<Backtick, "Bob", Backtick>>))>>,
      <<Arg(<<Backtick, "a", Backtick>>, ANum(<<"1">>)), Arg(<<"a">>, ANum(<<"2">>))>>,
      <<Arg(KwargsKey, AStr(<<"{", "x", "}">>))>>,
      <<Arg(KwargsKey, AStr(<<Backtick, "{", "x", "}", Backtick>>))>>,
      <<Arg(KwargsKey, AStr(<<"{", "oops", "}">>))>>,
      <<Arg(KwargsKey, AStr(<<Backtick, "not json", Backtick>>))>>,
      <<Arg(KwargsKey, ANum(<<"5">>))>>,
      <<Arg(KwargsKey, ADict([k \in {<<"a">>} |-> ANum(<<"1">>)]))>> }

(***************************************************************************)
(* Tool metadata.  An input schema is described by the names of its        *)
(* top-level properties and by what its `kwargs` property declares as      *)
(* nested `properties`: "absent", "empty" ({}) or "some".                  *)
(***************************************************************************)
ToolIds == {"t1", "t2"}
ToolConfigs == <<"t1", "t2">>

Schemas ==
    { [props |-> {"kwargs"}, nested |-> "some"],
      [props |-> {"kwargs"}, nested |-> "empty"],
      [props |-> {"kwargs"}, nested |-> "absent"],
      [props |-> {"kwargs", "q"}, nested |-> "some"],
      [props |-> {"a", "b"}, nested |-> "absent"],
      [props |-> {}, nested |-> "absent"] }

\* A title is a sequence of characters: "A" an uppercase letter, "b" a
\* lowercase letter, "7" a digit, "-" a punctuation mark, " " a space and
\* "TAB" a tab.
Titles ==
    { <<"A", "b">>,
      <<"A", " ", "b">>,
      <<"A", " ", " ", "b">>,
      <<"A", "7", "-", "b">>,
      <<"A", "TAB", "b">>,
      <<"7", "-">>,
      <<" ">>,
      <<>> }
DefaultTitle == <<"A", " ", "b">>
NoMetadata == [data |-> FALSE, title |-> <<>>, schema |-> [props |-> {}, nested |-> "absent"]]

\* What get_tool_metadata returns: a payload with a `data` key, or not.
Metadata ==
    { [data |-> TRUE, title |-> DefaultTitle, schema |-> sc] : sc \in Schemas }
        \cup { NoMetadata }

\* Payloads that differ by their title.
TitledMetadata ==
    { [data |-> TRUE, title |-> t, schema |-> [props |-> {"a", "b"}, nested |-> "absent"]] :
        t \in Titles }

\* The payloads of the tools that are called: one with a `kwargs` wrapper in
\* its schema, one without, and one that cannot be fetched.
CallMetadata ==
    { [data |-> TRUE, title |-> DefaultTitle,
       schema |-> [props |-> {"kwargs"}, nested |-> "some"]],
      [data |-> TRUE, title |-> DefaultTitle,
       schema |-> [props |-> {"a", "b"}, nested |-> "absent"]],
      NoMetadata }

\* A configuration file that lists one tool twice.
RegistrationConfigs == <<"t1", "t2", "t1">>

\* The characters of a tool ID.
IdText(tool_id) == IF tool_id = "t1" THEN <<"t", "1">> ELSE <<"t", "2">>

(***************************************************************************)
(* The state: the server (registration, descriptor cache, the tool call in *)
(* progress) and one run of the stream consumer.                           *)
(***************************************************************************)
VARIABLES
    ipc,           \* "registering", "idle", "posted", "streaming", "returned"
    todo,          \* the tool IDs register_tools has still to register
    tools_cache,   \* server.py:53
    registered,    \* the tool IDs whose tool function was added to the dispatcher
    tool_details,  \* server.py:78  what get_tool_metadata returned last
    mcp_tools,     \* server.py:140-144  the add_tool calls, in order
    tool,          \* the tool ID of the call in progress
    kwargs,        \* the arguments of the call in progress
    processed_inputs, \* server.py:165-184
    request,       \* the run-submission POST the call sent
    posts,         \* how many run submissions the call has sent
    submission,    \* what the last run submission was answered with
    answer,        \* what the tool function returned to its caller
    pc,            \* "idle", "connecting", "reading" or "done" (the consumer returned)
    now,           \* the event-loop clock, in seconds
    start_time,    \* client.py:432
    value_events,  \* client.py:427
    delta_paths,   \* client.py:429
    lines,         \* the lines response.aiter_lines() has yielded so far
    exit,          \* how the consumer left the stream
    result,        \* the mapping run_generic_tool (or the consumer) returned
    streams,       \* how many times the call has opened its stream URL
    conn,          \* the stream connection: "none", "open" or "closed"
    runs           \* the consumers of the invocations that run concurrently

ivars == <<ipc, todo, tools_cache, registered, tool_details, mcp_tools, tool, kwargs, processed_inputs, request,
          posts, submission, answer, runs>>
svars == <<pc, now, start_time, value_events, delta_paths, lines, exit, result,
          streams, conn>>
vars == <<ivars, svars>>

NoRequest == [tool_id |-> NoField, inputs |-> EmptyMap]
\* No invocation runs beside the one of the other variables.
NoRuns == <<>>
NoResult == [pending |-> TRUE]

(***************************************************************************)
(* Answers to the run submission (client.py:358-414): an HTTP response,    *)
(* with its status and what response.json() makes of its body, or an       *)
(* exception raised while the request is awaited.  The bodies:             *)
(*   "stream_link"  {"data": {"links": {"stream": <url>}}}                 *)
(*   "no_data"      {} (no `data` key)                                     *)
(*   "empty_link"   {"data": {"links": {"stream": ""}}}                    *)
(*   "null_data"    {"data": null}                                         *)
(*   "not_json"     a body json() cannot decode                            *)
(***************************************************************************)
Response(status, body) == [kind |-> "response", status |-> status, body |-> body, exc |-> NoField]
Raised(exc) == [kind |-> "raise", status |-> 0, body |-> NoField, exc |-> exc]
NoSubmission == [kind |-> "none", status |-> 0, body |-> NoField, exc |-> NoField]
StreamLinkResponse == Response(200, "stream_link")

(***************************************************************************)
(* What the tool function returns (server.py:228-354): kind says which     *)
(* return statement produced it, body is the JSON value returned verbatim  *)
(* or serialized, text the error text, shown the output paths the          *)
(* formatted text lists.                                                   *)
(***************************************************************************)
Answer(kind, body, text, shown) == [kind |-> kind, body |-> body, text |-> text, shown |-> shown]
NoAnswer == Answer("none", NoValue, <<>>, {})

SubmitOutcomes ==
    { Response(200, b) : b \in {"stream_link", "no_data", "empty_link", "null_data", "not_json"} }
        \cup { Response(404, "not_json"), Response(500, "no_data") }
        \cup { Raised(e) : e \in {"ConnectError", "CancelledError", "LoopClosed", "RuntimeError"} }

(***************************************************************************)
(* The consumer's steps, as the code computes them.                        *)
(***************************************************************************)
\* Mutant: leaving the stream block does not close the connection.
Release_Leak(c) == c

\* client.py:436  `async with client.stream(...)`: leaving the block, by any
\* way, closes the connection it opened.
Release(c) == IF c = "open" THEN "closed" ELSE c

\* Mutant: the budget is compared as if the clock counted milliseconds.
DeadlineExceeded_Millis(current_time, started) ==
    current_time - started > max_wait_time * 1000

\* An accumulator: the two dicts, and how the line's processing ended.
Acc(v, d, ctl) == [values |-> v, deltas |-> d, ctl |-> ctl]

\* client.py:441-442
DeadlineExceeded(current_time, started) == current_time - started > max_wait_time

\* Mutant: a path keeps the first value it received.
HandleValue_FirstWins(v, d, ev) ==
    LET path == IF ev.path = NoField THEN "unknown_path" ELSE ev.path
        value == IF ev.value = NoValue THEN EmptyDict ELSE ev.value
    IN  IF path \in DOMAIN v THEN Acc(v, d, "continue")
        ELSE Acc(Put(v, path, value), d, "continue")

\* client.py:456-460
HandleValue(v, d, ev) ==
    LET path == IF ev.path = NoField THEN "unknown_path" ELSE ev.path
        value == IF ev.value = NoValue THEN EmptyDict ELSE ev.value
    IN  Acc(Put(v, path, value), d, "continue")

\* Mutant: the new fragment is put in front of the accumulated text.
AppendText_Prepend(old, new) == JStr(new.s \o old.s)

\* client.py:472-473  delta_paths[path] += delta.get("value", "")
AppendText(old, new) == JStr(old.s \o new.s)

\* client.py:463-474
HandleDelta(v, d, ev) ==
    LET path == IF ev.path = NoField THEN "" ELSE ev.path
        d1 == IF path \in DOMAIN d THEN d ELSE Put(d, path, EmptyStr)
        piece == IF ev.dvalue = NoValue THEN EmptyStr ELSE ev.dvalue
    IN  CASE ev.dtype = "nonobject" -> Acc(v, d1, "raise")
          [] ev.dtype = "text" /\ piece.t # "str" -> Acc(v, d1, "raise")
          [] ev.dtype = "text" /\ piece.t = "str" ->
                Acc(v, Put(d1, path, AppendText(d1[path], piece)), "continue")
          [] OTHER -> Acc(v, d1, "continue")

\* Mutant: a status event of any status ends the loop.
HandleStatus_AnyStatus(v, d, ev) == Acc(v, d, "break")

\* Mutant: the completed status is logged and the loop goes on.
HandleStatus_NoBreak(v, d, ev) == Acc(v, d, "continue")

\* client.py:477-479
HandleStatus(v, d, ev) ==
    IF ev.status = "completed" THEN Acc(v, d, "break") ELSE Acc(v, d, "continue")

\* Mutant: the output is stored without testing that the event carries one.
HandleCompletion_AlwaysStores(v, d, ev) ==
    CASE ev.data = "null" -> Acc(v, d, "raise")
      [] OTHER ->
            Acc(Put(v, "completion_output",
                    IF ev.output = NoValue THEN EmptyDict ELSE ev.output), d, "break")

\* client.py:482-487
HandleCompletion(v, d, ev) ==
    CASE ev.data = NoField -> Acc(v, d, "break")
      [] ev.data = "null" -> Acc(v, d, "raise")
      [] OTHER ->
            IF ev.output # NoValue
            THEN Acc(Put(v, "completion_output", ev.output), d, "break")
            ELSE Acc(v, d, "break")

\* Mutant: the decode error is not caught at the line and reaches the outer handler.
HandleMalformed_Fatal(v, d) == Acc(v, d, "raise")

\* client.py:489-490  except json.JSONDecodeError: log, next line
HandleMalformed(v, d) == Acc(v, d, "continue")

\* client.py:446-490: one line that passed the deadline check.
ProcessLine(v, d, line) ==
    CASE ~line.prefix -> Acc(v, d, "continue")
      [] line.prefix /\ line.body = "blank" -> Acc(v, d, "continue")
      [] line.prefix /\ line.body = "malformed" -> HandleMalformed(v, d)
      [] line.prefix /\ line.body = "scalar" -> Acc(v, d, "raise")
      [] OTHER ->
            CASE line.type = "value" -> HandleValue(v, d, line)
              [] line.type = "delta" -> HandleDelta(v, d, line)
              [] line.type = "status" -> HandleStatus(v, d, line)
              [] line.type = CompletedType -> HandleCompletion(v, d, line)
              [] OTHER -> Acc(v, d, "continue")

\* Mutant: the fallback tests only that deltas were accumulated.
Fallback_Always(v, d) ==
    IF DOMAIN d # {}
    THEN [p \in DOMAIN v \cup DOMAIN d |-> IF p \in DOMAIN d THEN d[p] ELSE v[p]]
    ELSE v

\* client.py:500-504: the dict value_events after the fallback.
Fallback(v, d) ==
    IF DOMAIN v = {} /\ DOMAIN d # {}
    THEN [p \in DOMAIN v \cup DOMAIN d |-> IF p \in DOMAIN d THEN d[p] ELSE v[p]]
    ELSE v

\* Mutant: a run that collected nothing is reported as an error.
Finalize_ErrorOnEmpty(v, d) ==
    IF DOMAIN v = {} /\ DOMAIN d = {}
    THEN [error |-> "No output"]
    ELSE [output |-> IF DOMAIN v = {} THEN d ELSE v]

\* client.py:508
Finalize(v, d) == [output |-> Fallback(v, d)]

\* Mutant: the error result also hands back what was collected.
StreamError_Partial(v, d) == [error |-> "Stream error", output |-> v]

\* client.py:492-497
StreamError(v, d) == [error |-> "Stream error"]

(***************************************************************************)
(* Actions.                                                                *)
(***************************************************************************)
\* The consumer alone: a run was submitted and its stream is being opened.
Init ==
    /\ ipc = "streaming"
    /\ posts = 1
    /\ submission = StreamLinkResponse
    /\ answer = NoAnswer
    /\ runs = NoRuns
    /\ streams = 0
    /\ conn = "none"
    /\ todo = <<>>
    /\ tools_cache = EmptyMap
    /\ registered = {}
    /\ tool_details = NoMetadata
    /\ mcp_tools = <<>>
    /\ tool = NoField
    /\ kwargs = <<>>
    /\ processed_inputs = EmptyMap
    /\ request = NoRequest
    /\ pc = "connecting"
    /\ now = 0
    /\ start_time = 0
    /\ value_events = EmptyMap
    /\ delta_paths = EmptyMap
    /\ lines = <<>>
    /\ exit = "none"
    /\ result = NoResult

\* Mutant: the deadline is a timer of its own, it fires while no line arrives.
Tick_Timer ==
    /\ pc \in {"connecting", "reading"}
    /\ now < MaxTicks * TickSeconds
    /\ now' = now + TickSeconds
    /\ IF pc = "reading" /\ DeadlineExceeded(now', start_time)
       THEN /\ pc' = "done"
            /\ exit' = "timeout"
            /\ result' = Finalize(value_events, delta_paths)
            /\ value_events' = Fallback(value_events, delta_paths)
            /\ conn' = Release(conn)
            /\ UNCHANGED <<start_time, delta_paths, lines, streams>>
       ELSE /\ UNCHANGED <<pc, start_time, value_events, delta_paths, lines, exit, result>>
            /\ UNCHANGED <<streams, conn>>
    /\ UNCHANGED ivars

\* The clock advances while the consumer waits for the connection or a line.
Tick ==
    /\ pc \in {"connecting", "reading"}
    /\ now < MaxTicks * TickSeconds
    /\ now' = now + TickSeconds
    /\ UNCHANGED <<pc, start_time, value_events, delta_paths, lines, exit, result>>
    /\ UNCHANGED <<streams, conn>>
    /\ UNCHANGED ivars

\* client.py:436-438: the GET answers with a success status.
OpenStream ==
    /\ pc = "connecting"
    /\ pc' = "reading"
    /\ streams' = streams + 1
    /\ conn' = "open"
    /\ UNCHANGED <<now, start_time, value_events, delta_paths, lines, exit, result>>
    /\ UNCHANGED ivars

\* client.py:437, 492-494: raise_for_status() raises HTTPStatusError.
OpenBadStatus ==
    /\ pc = "connecting"
    /\ pc' = "done"
    /\ exit' = "badstatus"
    /\ result' = StreamError(value_events, delta_paths)
    /\ streams' = streams + 1
    /\ conn' = Release("open")
    /\ UNCHANGED <<now, start_time, value_events, delta_paths, lines>>
    /\ UNCHANGED ivars

\* client.py:436, 439, 495-497: the transport raises, at connect or at a read.
TransportFault ==
    /\ pc \in {"connecting", "reading"}
    /\ pc' = "done"
    /\ exit' = "fault"
    /\ result' = StreamError(value_events, delta_paths)
    /\ streams' = IF pc = "connecting" THEN streams + 1 ELSE streams
    /\ conn' = Release(conn)
    /\ UNCHANGED <<now, start_time, value_events, delta_paths, lines>>
    /\ UNCHANGED ivars

\* client.py:439-490 (and 499-508 when the loop is left): one line arrives.
ReadLine(line) ==
    /\ pc = "reading"
    /\ Len(lines) < MaxLines
    /\ lines' = Append(lines, line)
    /\ UNCHANGED <<now, start_time, streams>>
    /\ UNCHANGED ivars
    /\ IF DeadlineExceeded(now, start_time)
       THEN /\ pc' = "done"
            /\ exit' = "timeout"
            /\ result' = Finalize(value_events, delta_paths)
            /\ value_events' = Fallback(value_events, delta_paths)
            /\ UNCHANGED delta_paths
       ELSE LET acc == ProcessLine(value_events, delta_paths, line) IN
            /\ delta_paths' = acc.deltas
            /\ CASE acc.ctl = "continue" ->
                      /\ value_events' = acc.values
                      /\ UNCHANGED <<pc, exit, result>>
                 [] acc.ctl = "break" ->
                      /\ pc' = "done"
                      /\ exit' = "completed"
                      /\ result' = Finalize(acc.values, acc.deltas)
                      /\ value_events' = Fallback(acc.values, acc.deltas)
                 [] acc.ctl = "raise" ->
                      /\ pc' = "done"
                      /\ exit' = "exception"
                      /\ result' = StreamError(acc.values, acc.deltas)
                      /\ value_events' = acc.values
    /\ conn' = IF pc' = "done" THEN Release(conn) ELSE conn

\* Mutant: at the end of the stream the consumer waits for a line that never comes.
EndOfStream_Waits ==
    /\ pc = "reading"
    /\ pc' = "waiting"
    /\ UNCHANGED <<now, start_time, value_events, delta_paths, lines, exit, result>>
    /\ UNCHANGED <<streams, conn>>
    /\ UNCHANGED ivars

\* client.py:439, 499-508: the stream ends and the loop is left.
EndOfStream ==
    /\ pc = "reading"
    /\ pc' = "done"
    /\ exit' = "eof"
    /\ result' = Finalize(value_events, delta_paths)
    /\ conn' = Release(conn)
    /\ UNCHANGED streams
    /\ value_events' = Fallback(value_events, delta_paths)
    /\ UNCHANGED <<now, start_time, delta_paths, lines>>
    /\ UNCHANGED ivars

Next ==
    \/ Tick
    \/ OpenStream
    \/ OpenBadStatus
    \/ TransportFault
    \/ \E line \in Lines : ReadLine(line)
    \/ EndOfStream

Spec == Init /\ [][Next]_vars

\* The stream settles: it ends, or the transport gives up.  The client is built
\* with a timeout (client.py:383), so a connection attempt or a read that gets
\* no answer raises; the event loop then resumes the consumer.
StreamSettles == EndOfStream \/ TransportFault

SpecLive == Init /\ [][Next]_vars /\ WF_vars(StreamSettles)

(***************************************************************************)
(* The server: registration, the tool function's input normalizer and the  *)
(* run submitter.                                                          *)
(***************************************************************************)
\* Mutant: a nested `properties` that is declared but empty counts as well.
Classify_AnyNested(schema) ==
    /\ Cardinality(schema.props) = 1
    /\ "kwargs" \in schema.props
    /\ schema.nested # "absent"

\* server.py:111-135: has_kwargs_wrapper, as register_tool decides it.
Classify(schema) ==
    /\ Cardinality(schema.props) = 1
    /\ "kwargs" \in schema.props
    /\ schema.nested # "absent"
    /\ schema.nested = "some"

\* server.py:112  kwargs_properties: the names the `kwargs` property declares.
NestedProperties(schema) == IF schema.nested = "some" THEN {"a", "b"} ELSE {}

\* server.py:125-129: the properties the tool's description lists.
EffectiveParameters(schema) ==
    IF Classify(schema) THEN NestedProperties(schema) ELSE schema.props

\* str.isalpha, str.isspace and str.lower on one character (server.py:91-93).
IsAlpha(c) == c \in {"A", "b"}
IsSpace(c) == c \in {" ", "TAB"}
Lower(c) == IF c = "A" THEN "a" ELSE c

\* server.py:91  clean_title: the letters and the whitespace of the title.
CleanTitle(raw_title) == SelectSeq(raw_title, LAMBDA c : IsAlpha(c) \/ IsSpace(c))

\* tool_id[-8:]
Last8(text) == SubSeq(text, IF Len(text) > 8 THEN Len(text) - 7 ELSE 1, Len(text))

\* server.py:91-97: tool_name.
ToolName(raw_title, tool_id) ==
    LET clean_title == CleanTitle(raw_title)
        lowered == [i \in DOMAIN clean_title |-> Lower(clean_title[i])]
        tool_name == [i \in DOMAIN lowered |-> IF lowered[i] = " " THEN "_" ELSE lowered[i]]
    IN  IF tool_name = <<>> THEN <<"wordware_tool_">> \o Last8(IdText(tool_id))
        ELSE tool_name

\* str.strip on backticks (server.py:159, 178, 181).
RECURSIVE LStrip(_)
LStrip(s) == IF s # <<>> /\ Head(s) = Backtick THEN LStrip(Tail(s)) ELSE s
RECURSIVE RStrip(_)
RStrip(s) ==
    IF s # <<>> /\ s[Len(s)] = Backtick THEN RStrip(SubSeq(s, 1, Len(s) - 1)) ELSE s
Strip(s) == RStrip(LStrip(s))

\* server.py:160
LooksLikeObject(s) == s # <<>> /\ s[1] = "{" /\ s[Len(s)] = "}"

\* server.py:163  json.loads of a text that starts with { and ends with }: the
\* text parses when every fragment between the braces is a member ("x" stands
\* for "x": 5), and gives the mapping of its members.
JsonMembers == {"x", "y"}
JsonLoads(s) ==
    LET inner == { i \in DOMAIN s : 1 < i /\ i < Len(s) }
    IN  IF Len(s) >= 2 /\ \A i \in inner : s[i] \in JsonMembers
        THEN [ok |-> TRUE, value |-> [k \in { <<s[i]>> : i \in inner } |-> ANum(<<"5">>)]]
        ELSE [ok |-> FALSE, value |-> EmptyMap]

\* The dict **kwargs: a later argument replaces an earlier one of the same name.
RECURSIVE AsDict(_)
AsDict(kw) ==
    IF kw = <<>> THEN EmptyMap
    ELSE LET n == Len(kw) IN Put(AsDict(SubSeq(kw, 1, n - 1)), kw[n].k, kw[n].v)

\* Mutant: only the keys are cleaned, the string values keep their backticks.
RECURSIVE CleanArgs_KeysOnly(_)
CleanArgs_KeysOnly(kw) ==
    IF kw = <<>> THEN EmptyMap
    ELSE LET n == Len(kw)
         IN  Put(CleanArgs_KeysOnly(SubSeq(kw, 1, n - 1)), Strip(kw[n].k), kw[n].v)

\* server.py:175-184: keys and string values without their backticks.
RECURSIVE CleanArgs(_)
CleanArgs(kw) ==
    IF kw = <<>> THEN EmptyMap
    ELSE LET n == Len(kw)
             value == kw[n].v
         IN  Put(CleanArgs(SubSeq(kw, 1, n - 1)), Strip(kw[n].k),
                 IF value.t = "str" THEN AStr(Strip(value.s)) ELSE value)

\* Mutant: the parsed mapping is kept under the `kwargs` key, and a text that
\* does not parse is cleaned like any other argument.
ProcessInputs_KeepsWrapper(kw) ==
    IF Len(kw) = 1 /\ kw[1].k = KwargsKey /\ kw[1].v.t = "str"
    THEN LET kwargs_value == Strip(kw[1].v.s)
         IN  IF LooksLikeObject(kwargs_value) /\ JsonLoads(kwargs_value).ok
             THEN Put(EmptyMap, KwargsKey, ADict(JsonLoads(kwargs_value).value))
             ELSE CleanArgs(kw)
    ELSE CleanArgs(kw)

\* server.py:158-184: processed_inputs.
ProcessInputs(kw) ==
    IF Len(kw) = 1 /\ kw[1].k = KwargsKey /\ kw[1].v.t = "str"
    THEN LET kwargs_value == Strip(kw[1].v.s)
         IN  IF LooksLikeObject(kwargs_value) /\ JsonLoads(kwargs_value).ok
             THEN JsonLoads(kwargs_value).value
             ELSE AsDict(kw)
    ELSE CleanArgs(kw)

\* server.py:189-197: final_inputs.
FinalInputs(cache, tool_id, processed) ==
    LET requires_kwargs_wrapper ==
            IF tool_id \in DOMAIN cache
            THEN cache[tool_id].requires_kwargs_wrapper ELSE FALSE
    IN  IF requires_kwargs_wrapper
        THEN Put(EmptyMap, KwargsKey, ADict(processed))
        ELSE processed

\* Mutant: a lone `kwargs` key is unwrapped whatever its value is.
ActualInputs_AnyValue(inputs) ==
    IF Cardinality(DOMAIN inputs) = 1 /\ KwargsKey \in DOMAIN inputs
    THEN inputs[KwargsKey].m
    ELSE inputs

\* client.py:330-334: actual_inputs.
ActualInputs(inputs) ==
    IF /\ Cardinality(DOMAIN inputs) = 1
       /\ KwargsKey \in DOMAIN inputs
       /\ inputs[KwargsKey].t = "dict"
    THEN inputs[KwargsKey].m
    ELSE inputs

\* client.py:337-365: the POST to /v1/apps/{tool_id}/runs.
RunRequest(tool_id, inputs) == [tool_id |-> tool_id, inputs |-> ActualInputs(inputs)]

\* The server before initialize(): nothing registered, no call.
InitServer ==
    /\ ipc = "registering"
    /\ posts = 0
    /\ submission = NoSubmission
    /\ answer = NoAnswer
    /\ runs = NoRuns
    /\ streams = 0
    /\ conn = "none"
    /\ todo = ToolConfigs
    /\ tools_cache = EmptyMap
    /\ registered = {}
    /\ tool_details = NoMetadata
    /\ mcp_tools = <<>>
    /\ tool = NoField
    /\ kwargs = <<>>
    /\ processed_inputs = EmptyMap
    /\ request = NoRequest
    /\ pc = "idle"
    /\ now = 0
    /\ start_time = 0
    /\ value_events = EmptyMap
    /\ delta_paths = EmptyMap
    /\ lines = <<>>
    /\ exit = "none"
    /\ result = NoResult

\* Mutant: a tool that cannot be resolved ends the loop over the configuration.
RegisterTool_AbortsOnFailure(meta) ==
    /\ ipc = "registering"
    /\ todo # <<>>
    /\ todo' = IF meta.data THEN Tail(todo) ELSE <<>>
    /\ tool_details' = meta
    /\ IF meta.data
       THEN /\ tools_cache' =
                    Put(tools_cache, Head(todo),
                        [id |-> Head(todo),
                         name |-> ToolName(meta.title, Head(todo)),
                         requires_kwargs_wrapper |-> Classify(meta.schema)])
            /\ registered' = registered \cup {Head(todo)}
            /\ mcp_tools' =
                    Append(mcp_tools,
                           [id |-> Head(todo),
                            name |-> ToolName(meta.title, Head(todo)),
                            has_kwargs_wrapper |-> Classify(meta.schema),
                            parameters |-> EffectiveParameters(meta.schema)])
       ELSE UNCHANGED <<tools_cache, registered, mcp_tools>>
    /\ UNCHANGED <<ipc, runs, tool, kwargs, processed_inputs, request, posts, submission, answer>>
    /\ UNCHANGED svars

\* server.py:70-146: register_tool for the next configured ID.
RegisterTool(meta) ==
    /\ ipc = "registering"
    /\ todo # <<>>
    /\ todo' = Tail(todo)
    /\ tool_details' = meta
    /\ IF meta.data
       THEN /\ tools_cache' =
                    Put(tools_cache, Head(todo),
                        [id |-> Head(todo),
                         name |-> ToolName(meta.title, Head(todo)),
                         requires_kwargs_wrapper |-> Classify(meta.schema)])
            /\ registered' = registered \cup {Head(todo)}
            /\ mcp_tools' =
                    Append(mcp_tools,
                           [id |-> Head(todo),
                            name |-> ToolName(meta.title, Head(todo)),
                            has_kwargs_wrapper |-> Classify(meta.schema),
                            parameters |-> EffectiveParameters(meta.schema)])
       ELSE UNCHANGED <<tools_cache, registered, mcp_tools>>
    /\ UNCHANGED <<ipc, runs, tool, kwargs, processed_inputs, request, posts, submission, answer>>
    /\ UNCHANGED svars

\* server.py:362-372: initialize() is over and the dispatcher serves calls.
StartServing ==
    /\ ipc = "registering"
    /\ todo = <<>>
    /\ ipc' = "idle"
    /\ UNCHANGED <<todo, tools_cache, registered, tool_details, mcp_tools, runs>>
    /\ UNCHANGED <<tool, kwargs, processed_inputs, request, posts, submission, answer>>
    /\ UNCHANGED svars

\* Mutant: the invocation fetches the metadata again and rewrites the cache entry.
CallTool_Refetch(t, kw) ==
    /\ ipc \in {"idle", "returned"}
    /\ t \in registered
    /\ tool' = t
    /\ kwargs' = kw
    /\ processed_inputs' = ProcessInputs(kw)
    /\ request' = RunRequest(t, FinalInputs(tools_cache, t, ProcessInputs(kw)))
    /\ ipc' = "posted"
    /\ posts' = 1
    /\ submission' = NoSubmission
    /\ answer' = NoAnswer
    /\ streams' = 0
    /\ conn' = "none"
    /\ pc' = "idle"
    /\ value_events' = EmptyMap
    /\ delta_paths' = EmptyMap
    /\ lines' = <<>>
    /\ exit' = "none"
    /\ result' = NoResult
    /\ \E meta \in CallMetadata :
          /\ tool_details' = meta
          /\ tools_cache' =
                IF meta.data
                THEN Put(tools_cache, t, [tools_cache[t] EXCEPT
                            !.requires_kwargs_wrapper = Classify(meta.schema)])
                ELSE tools_cache
    /\ UNCHANGED <<todo, registered, mcp_tools, runs, now, start_time>>

\* server.py:154-214 and client.py:317-365: the tool function normalizes its
\* arguments and run_generic_tool sends the run submission.
CallTool(t, kw) ==
    /\ ipc \in {"idle", "returned"}
    /\ t \in registered
    /\ tool' = t
    /\ kwargs' = kw
    /\ processed_inputs' = ProcessInputs(kw)
    /\ request' = RunRequest(t, FinalInputs(tools_cache, t, ProcessInputs(kw)))
    /\ ipc' = "posted"
    /\ posts' = 1
    /\ submission' = NoSubmission
    /\ answer' = NoAnswer
    /\ streams' = 0
    /\ conn' = "none"
    /\ pc' = "idle"
    /\ value_events' = EmptyMap
    /\ delta_paths' = EmptyMap
    /\ lines' = <<>>
    /\ exit' = "none"
    /\ result' = NoResult
    /\ UNCHANGED <<todo, tools_cache, registered, tool_details, mcp_tools, runs, now, start_time>>

\* The clock advances while the submission is awaited.
TickSubmit ==
    /\ ipc = "posted"
    /\ now < MaxTicks * TickSeconds
    /\ now' = now + TickSeconds
    /\ UNCHANGED ivars
    /\ UNCHANGED <<pc, start_time, value_events, delta_paths, lines, exit, result>>
    /\ UNCHANGED <<streams, conn>>

\* client.py:368  raise_for_status() passes.
IsSuccess(status) == status >= 200 /\ status < 300

\* client.py:372  run_data.get("data", {}).get("links", {}).get("stream"):
\* the link, None when a key is missing, or an AttributeError when `data` is
\* null and has no get.
StreamUrl(body) ==
    CASE body = "stream_link" -> [raised |-> FALSE, url |-> "url"]
      [] body = "empty_link" -> [raised |-> FALSE, url |-> ""]
      [] body = "null_data" -> [raised |-> TRUE, url |-> NoField]
      [] OTHER -> [raised |-> FALSE, url |-> NoField]

\* client.py:367-380: the submission was answered with a usable stream link.
HasStreamUrl(outcome) ==
    /\ outcome.kind = "response"
    /\ IsSuccess(outcome.status)
    /\ outcome.body # "not_json"
    /\ ~StreamUrl(outcome.body).raised
    /\ StreamUrl(outcome.body).url \notin {NoField, ""}

\* Mutant: a failed submission also returns an empty output.
ErrorResult_WithOutput(outcome) ==
    [error |-> <<"Unexpected error">>, output |-> EmptyMap]

\* client.py:375-377, 390-414: the mapping returned for a submission that
\* gave no stream link.
ErrorResult(outcome) ==
    CASE outcome.kind = "raise" ->
            CASE outcome.exc = "CancelledError" -> [error |-> <<"Operation was cancelled">>]
              [] outcome.exc = "LoopClosed" -> [error |-> <<"Event loop is closed">>]
              [] outcome.exc = "RuntimeError" -> [error |-> <<"Runtime error">>]
              [] OTHER -> [error |-> <<"Unexpected error">>]
      [] ~IsSuccess(outcome.status) ->
            [error |-> <<"HTTP error ", ToString(outcome.status), ": ", outcome.body>>]
      [] outcome.body = "not_json" -> [error |-> <<"Failed to parse Wordware API response">>]
      [] StreamUrl(outcome.body).raised -> [error |-> <<"Unexpected error">>]
      [] OTHER -> [error |-> <<"No stream URL in response">>, response |-> outcome.body]

\* Mutant: the RuntimeError of a closed event loop is not caught by
\* run_generic_tool and reaches the tool function.
Escapes_LoopClosed(exc) == exc = "LoopClosed"

\* client.py:356, 390-414: every exception raised while the run is submitted
\* is caught inside run_generic_tool and turned into a result; none reaches
\* the handlers of the tool function (server.py:216-238).
Escapes(exc) == FALSE

\* An output key as the materializer's tests see it: the word it starts with
\* and the words it contains.
KeyStart(k) ==
    CASE k = "research_summary" -> "research"
      [] k = "notion_url" -> "notion"
      [] k = "save_status" -> "save"
      [] OTHER -> NoField
KeyWords(k) ==
    CASE k = "research_summary" -> {"research", "summary"}
      [] k = "notion_url" -> {"notion", "url"}
      [] k = "save_status" -> {"save"}
      [] OTHER -> {}
Sections == {"person", "company", "competition", "questions", "summary"}
\* An event's `path` may be any JSON value; NumberPath is the key that the
\* event {"path": 5} gives, which has no startswith and no lower.
NumberPath == "#5"
IsStrKey(k) == k # NumberPath

\* A JSON object, described by its keys, has the key.
HasKey(v, key) == v.t = "obj" /\ \E i \in DOMAIN v.s : v.s[i] = key
\* The value an object holds under a key.
Member(v, key) == [t |-> "member", s |-> <<key>>]
\* isinstance(v, str) and v.startswith("http") (server.py:311).
IsHttpUrl(v) == v.t = "str" /\ v.s # <<>> /\ v.s[1] = "http"

\* Mutant: completion_output gets no special treatment and is formatted away.
Materialize_NoCompletion(r) ==
    IF "output" \in DOMAIN r
    THEN Answer("general", NoValue, <<>>, DOMAIN r.output \ {"completion_output"})
    ELSE IF "error" \in DOMAIN r THEN Answer("error", NoValue, r.error, {})
    ELSE Answer("json", NoValue, <<>>, {})

\* server.py:240-354: the caller-facing answer made of a result.  The tests
\* on the keys (server.py:256, 271) are outside every try block: a key that
\* is no string raises out of the tool function (kind "raise").
Materialize(r) ==
    IF "output" \in DOMAIN r
    THEN LET output == r.output
             keys == DOMAIN output
         IN  IF "completion_output" \in keys
             THEN LET completion == output["completion_output"]
                  IN  IF completion.t = "str"
                      THEN Answer("verbatim", completion, <<>>, {})
                      ELSE IF HasKey(completion, "result")
                      THEN Answer("verbatim", Member(completion, "result"), <<>>, {})
                      ELSE Answer("json", completion, <<>>, {})
             ELSE IF \E k \in keys : ~IsStrKey(k)
             THEN Answer("raise", NoValue, <<"AttributeError">>, {})
             ELSE IF \E k \in keys : KeyStart(k) = "research"
             THEN Answer("research", NoValue, <<>>,
                         { k \in keys : KeyWords(k) \cap Sections # {} }
                            \cup { k \in keys : KeyWords(k) \cap Sections = {} })
             ELSE IF \E k \in keys : KeyStart(k) \in {"notion", "save"}
             THEN LET url_keys == { k \in keys : "url" \in KeyWords(k) }
                  IN  IF url_keys # {}
                      THEN Answer("notion", NoValue, <<>>,
                                  { k \in url_keys : IsHttpUrl(output[k]) })
                      ELSE Answer("notion", NoValue, <<>>, keys)
             ELSE Answer("general", NoValue, <<>>, keys)
    ELSE IF "error" \in DOMAIN r
    THEN Answer("error", NoValue, r.error, {})
    ELSE Answer("json", NoValue, <<>>, {})

\* client.py:367-377, 390-414: the answer to the submission.  With a stream
\* link the consumer is entered (client.py:382-386, 426-432).  An exception
\* that reached the tool function would be handled at server.py:216-234: a
\* closed event loop by a second run_generic_tool call on a new client, any
\* other by an error text.
SubmitResponse(outcome) ==
    /\ ipc = "posted"
    /\ submission' = outcome
    /\ IF HasStreamUrl(outcome)
       THEN /\ ipc' = "streaming"
            /\ pc' = "connecting"
            /\ start_time' = now
            /\ UNCHANGED <<result, posts, answer>>
       ELSE IF outcome.kind = "raise" /\ Escapes(outcome.exc)
       THEN IF outcome.exc = "LoopClosed" /\ posts = 1
            THEN /\ posts' = posts + 1
                 /\ UNCHANGED <<ipc, pc, start_time, result, answer>>
            ELSE /\ ipc' = "returned"
                 /\ answer' = Answer("error", NoValue, <<outcome.exc>>, {})
                 /\ UNCHANGED <<pc, start_time, result, posts>>
       ELSE /\ ipc' = "returned"
            /\ result' = ErrorResult(outcome)
            /\ answer' = Materialize(ErrorResult(outcome))
            /\ UNCHANGED <<pc, start_time, posts>>
    /\ UNCHANGED <<todo, tools_cache, registered, tool_details, mcp_tools, runs>>
    /\ UNCHANGED <<tool, kwargs, processed_inputs, request>>
    /\ UNCHANGED <<now, value_events, delta_paths, lines, exit, streams, conn>>

\* client.py:383-388: the consumer returned; the two clients are closed and
\* run_generic_tool returns the consumer's result, of which the tool function
\* makes its answer (server.py:240-354).  The consumer's locals are gone with
\* its frame.
ReturnFromRun ==
    /\ ipc = "streaming"
    /\ pc = "done"
    /\ ipc' = "returned"
    /\ pc' = "idle"
    /\ value_events' = EmptyMap
    /\ delta_paths' = EmptyMap
    /\ lines' = <<>>
    /\ exit' = "none"
    /\ UNCHANGED <<todo, tools_cache, registered, tool_details, mcp_tools, runs>>
    /\ answer' = Materialize(result)
    /\ UNCHANGED <<tool, kwargs, processed_inputs, request, posts, submission>>
    /\ UNCHANGED <<now, start_time, result, streams, conn>>

\* The lines the stream delivers to a tool call.
CallLines ==
    { [BaseLine EXCEPT !.type = "value", !.path = "a", !.value = JObj(<<"k">>)],
      [BaseLine EXCEPT !.type = "delta", !.path = "c", !.dtype = "text",
                       !.dvalue = JStr(<<"Hel">>)],
      [BaseLine EXCEPT !.type = CompletedType, !.data = "object",
                       !.output = JStr(<<"final">>)],
      [BaseLine EXCEPT !.type = CompletedType, !.data = "object",
                       !.output = JObj(<<"result">>)],
      [BaseLine EXCEPT !.type = CompletedType, !.data = "object",
                       !.output = JObj(<<"k">>)] }

NextServer ==
    \/ \E meta \in CallMetadata : RegisterTool(meta)
    \/ StartServing
    \/ \E t \in ToolIds, kw \in ArgLists : CallTool(t, kw)
    \/ TickSubmit
    \/ \E outcome \in SubmitOutcomes : SubmitResponse(outcome)
    \/ Tick
    \/ OpenStream
    \/ OpenBadStatus
    \/ TransportFault
    \/ \E line \in CallLines : ReadLine(line)
    \/ EndOfStream
    \/ ReturnFromRun

SpecServer == InitServer /\ [][NextServer]_vars

(***************************************************************************)
(* One call from its stream to its answer, over outputs whose paths the    *)
(* materializer tells apart by name.                                       *)
(***************************************************************************)
AnswerLines ==
    { [BaseLine EXCEPT !.type = "value", !.path = "research_summary", !.value = JStr(<<"w">>)],
      [BaseLine EXCEPT !.type = "value", !.path = "notion_url", !.value = JStr(<<"http", "x">>)],
      [BaseLine EXCEPT !.type = "value", !.path = "notion_url", !.value = JStr(<<"pending">>)],
      [BaseLine EXCEPT !.type = "value", !.path = "save_status", !.value = JStr(<<"w">>)],
      [BaseLine EXCEPT !.type = "value", !.path = "a", !.value = JObj(<<"k">>)],
      [BaseLine EXCEPT !.type = "value", !.path = NumberPath, !.value = JStr(<<"w">>)],
      [BaseLine EXCEPT !.type = "value", !.path = "completion_output",
                       !.value = JStr(<<"w">>)],
      [BaseLine EXCEPT !.type = "delta", !.path = "c", !.dtype = "text",
                       !.dvalue = JStr(<<"Hel">>)],
      [BaseLine EXCEPT !.type = CompletedType, !.data = "object",
                       !.output = JStr(<<"final">>)] }

NextAnswer ==
    \/ OpenStream
    \/ \E line \in AnswerLines : ReadLine(line)
    \/ EndOfStream
    \/ ReturnFromRun

SpecAnswer == Init /\ [][NextAnswer]_vars

(***************************************************************************)
(* Two invocations at once.  Each call of run_generic_tool has its own     *)
(* clients (client.py:358, 383) and each call of the consumer its own      *)
(* value_events, delta_paths and start_time (client.py:427-432); the event *)
(* loop interleaves the consumers at their awaits, one line at a time.     *)
(***************************************************************************)
Invocations == {1, 2}

\* The consumer of an invocation when its stream is being opened; `opened` keeps
\* the time at which the stream answered.
NewRun ==
    [pc |-> "connecting", start_time |-> 0, opened |-> 0, value_events |-> EmptyMap,
     delta_paths |-> EmptyMap, lines |-> <<>>, exit |-> "none", result |-> NoResult]

\* Mutant: the accumulators are kept in one place that every consumer uses.
Own_Shared(i) == 1

\* client.py:427-429: the invocation whose accumulators consumer i reads and
\* writes: its own, they are locals of its call.
Own(i) == i

\* The lines a concurrent stream delivers.
ConcurrentLines ==
    { [BaseLine EXCEPT !.type = "value", !.path = "a", !.value = JObj(<<"k">>)],
      [BaseLine EXCEPT !.type = "value", !.path = "c", !.value = JStr(<<"w">>)],
      [BaseLine EXCEPT !.type = "delta", !.path = "c", !.dtype = "text",
                       !.dvalue = JStr(<<"Hel">>)],
      [BaseLine EXCEPT !.type = "status", !.status = "completed"] }

\* runs with consumer i moved to `mine` and the accumulators it uses set to v, d.
Stored(i, mine, v, d) ==
    [r \in Invocations |->
        LET base == IF r = i THEN mine ELSE runs[r]
        IN  IF r = Own(i) THEN [base EXCEPT !.value_events = v, !.delta_paths = d]
            ELSE base]

\* An invocation whose consumer has not been called yet.
IdleRun == [NewRun EXCEPT !.pc = "idle"]

InitConcurrent ==
    /\ ipc = "streaming"
    /\ posts = 1
    /\ submission = StreamLinkResponse
    /\ answer = NoAnswer
    /\ runs = [i \in Invocations |-> IdleRun]
    /\ streams = 0
    /\ conn = "none"
    /\ todo = <<>>
    /\ tools_cache = EmptyMap
    /\ registered = {}
    /\ tool_details = NoMetadata
    /\ mcp_tools = <<>>
    /\ tool = NoField
    /\ kwargs = <<>>
    /\ processed_inputs = EmptyMap
    /\ request = NoRequest
    /\ pc = "connecting"
    /\ now = 0
    /\ start_time = 0
    /\ value_events = EmptyMap
    /\ delta_paths = EmptyMap
    /\ lines = <<>>
    /\ exit = "none"
    /\ result = NoResult

\* What the concurrent steps leave alone: the invocation of the other variables.
others == <<ipc, todo, tools_cache, registered, tool_details, mcp_tools, tool, kwargs,
            processed_inputs, request, posts, submission, answer, svars>>

\* The clock the invocations share (time.time(), client.py:432, 441).
ConcurrentTick ==
    /\ \E i \in Invocations : runs[i].pc # "done"
    /\ now < MaxTicks * TickSeconds
    /\ now' = now + TickSeconds
    /\ UNCHANGED <<runs, ipc, todo, tools_cache, registered, tool_details, mcp_tools,
                   tool, kwargs, processed_inputs, request, posts, submission, answer>>
    /\ UNCHANGED <<pc, start_time, value_events, delta_paths, lines, exit, result,
                   streams, conn>>

\* client.py:427-432: the consumer is called: fresh accumulators, the clock read.
RunStart(i) ==
    /\ runs[i].pc = "idle"
    /\ runs' = Stored(i, [runs[i] EXCEPT !.pc = "connecting", !.start_time = now],
                      EmptyMap, EmptyMap)
    /\ UNCHANGED others

\* client.py:436-438: the GET of invocation i answers with a success status.
RunOpen(i) ==
    /\ runs[i].pc = "connecting"
    /\ runs' = [runs EXCEPT ![i].pc = "reading", ![i].opened = now]
    /\ UNCHANGED others

\* client.py:439-490, 499-508: one line of the stream of invocation i arrives.
RunLine(i, line) ==
    LET me == runs[i]
        v == runs[Own(i)].value_events
        d == runs[Own(i)].delta_paths
        read == [me EXCEPT !.lines = Append(me.lines, line)]
        acc == ProcessLine(v, d, line)
    IN  /\ me.pc = "reading"
        /\ Len(me.lines) < MaxConcurrentLines
        /\ UNCHANGED others
        /\ runs' =
             IF DeadlineExceeded(now, me.start_time)
             THEN Stored(i, [read EXCEPT !.pc = "done", !.exit = "timeout",
                                        !.result = Finalize(v, d)],
                         Fallback(v, d), d)
             ELSE CASE acc.ctl = "continue" -> Stored(i, read, acc.values, acc.deltas)
                    [] acc.ctl = "break" ->
                         Stored(i, [read EXCEPT !.pc = "done", !.exit = "completed",
                                       !.result = Finalize(acc.values, acc.deltas)],
                                Fallback(acc.values, acc.deltas), acc.deltas)
                    [] acc.ctl = "raise" ->
                         Stored(i, [read EXCEPT !.pc = "done", !.exit = "exception",
                                       !.result = StreamError(acc.values, acc.deltas)],
                                acc.values, acc.deltas)

\* client.py:439, 499-508: the stream of invocation i ends.
RunEnd(i) ==
    LET v == runs[Own(i)].value_events
        d == runs[Own(i)].delta_paths
    IN  /\ runs[i].pc = "reading"
        /\ runs' = Stored(i, [runs[i] EXCEPT !.pc = "done", !.exit = "eof",
                                             !.result = Finalize(v, d)],
                          Fallback(v, d), d)
        /\ UNCHANGED others

\* client.py:436, 439, 492-497: the transport of invocation i raises.
RunFault(i) ==
    LET v == runs[Own(i)].value_events
        d == runs[Own(i)].delta_paths
    IN  /\ runs[i].pc \in {"connecting", "reading"}
        /\ runs' = [runs EXCEPT ![i].pc = "done", ![i].exit = "fault",
                                ![i].result = StreamError(v, d)]
        /\ UNCHANGED others

NextConcurrent ==
    \/ ConcurrentTick
    \/ \E i \in Invocations : RunStart(i)
    \/ \E i \in Invocations : RunOpen(i)
    \/ \E i \in Invocations : \E line \in ConcurrentLines : RunLine(i, line)
    \/ \E i \in Invocations : RunEnd(i)
    \/ \E i \in Invocations : RunFault(i)

SpecConcurrent == InitConcurrent /\ [][NextConcurrent]_vars

(***************************************************************************)
(* The two stream consumers side by side.  _process_sse_stream reads the   *)
(* stream through the client's own connection pool (client.py:43-134),     *)
(* _process_sse_stream_with_client through the client of the run           *)
(* (client.py:416-508).  Both are given the same stream: the same lines at *)
(* the same times, the same end, the same faults.                          *)
(***************************************************************************)
PoolConsumer == 1
OwnConsumer == 2

\* Mutant: the pool consumer stops at the deadline itself, not after it.
PoolDeadlineExceeded_AtLeast(current_time, started) ==
    current_time - started >= max_wait_time

\* client.py:57, 67-68
PoolDeadlineExceeded(current_time, started) == current_time - started > max_wait_time

\* client.py:72-118: one line in _process_sse_stream.
PoolProcessLine(v, d, line) ==
    IF ~line.prefix THEN Acc(v, d, "continue")
    ELSE IF line.body = "blank" THEN Acc(v, d, "continue")
    ELSE IF line.body = "malformed" THEN Acc(v, d, "continue")
    ELSE IF line.body = "scalar" THEN Acc(v, d, "raise")
    ELSE IF line.type = "value"
    THEN Acc(Put(v, IF line.path = NoField THEN "unknown_path" ELSE line.path,
                    IF line.value = NoValue THEN EmptyDict ELSE line.value),
             d, "continue")
    ELSE IF line.type = "delta"
    THEN LET path == IF line.path = NoField THEN "" ELSE line.path
             seen == IF path \in DOMAIN d THEN d ELSE Put(d, path, EmptyStr)
             text == IF line.dvalue = NoValue THEN EmptyStr ELSE line.dvalue
         IN  IF line.dtype = "nonobject" THEN Acc(v, seen, "raise")
             ELSE IF line.dtype # "text" THEN Acc(v, seen, "continue")
             ELSE IF text.t # "str" THEN Acc(v, seen, "raise")
             ELSE Acc(v, Put(seen, path, JStr(seen[path].s \o text.s)), "continue")
    ELSE IF line.type = "status" /\ line.status = "completed" THEN Acc(v, d, "break")
    ELSE IF line.type = CompletedType
    THEN IF line.data = NoField THEN Acc(v, d, "break")
         ELSE IF line.data = "null" THEN Acc(v, d, "raise")
         ELSE IF line.output # NoValue
         THEN Acc(Put(v, "completion_output", line.output), d, "break")
         ELSE Acc(v, d, "break")
    ELSE Acc(v, d, "continue")

\* client.py:126-130: the deltas stand in when no value was stored.
PoolFallback(v, d) == IF DOMAIN v = {} /\ DOMAIN d # {} THEN d ELSE v

\* client.py:134
PoolOutput(v, d) == [output |-> PoolFallback(v, d)]

\* client.py:120-125
PoolError == [error |-> "Stream error"]

\* client.py:66-118, 126-134: consumer r of the pool kind receives a line.
PoolLine(r, line) ==
    LET read == [r EXCEPT !.lines = Append(r.lines, line)]
        acc == PoolProcessLine(r.value_events, r.delta_paths, line)
    IN  IF PoolDeadlineExceeded(now, r.start_time)
        THEN [read EXCEPT !.pc = "done", !.exit = "timeout",
                          !.result = PoolOutput(r.value_events, r.delta_paths),
                          !.value_events = PoolFallback(r.value_events, r.delta_paths)]
        ELSE CASE acc.ctl = "continue" ->
                    [read EXCEPT !.value_events = acc.values, !.delta_paths = acc.deltas]
               [] acc.ctl = "break" ->
                    [read EXCEPT !.pc = "done", !.exit = "completed",
                                 !.result = PoolOutput(acc.values, acc.deltas),
                                 !.value_events = PoolFallback(acc.values, acc.deltas),
                                 !.delta_paths = acc.deltas]
               [] acc.ctl = "raise" ->
                    [read EXCEPT !.pc = "done", !.exit = "exception",
                                 !.result = PoolError,
                                 !.value_events = acc.values, !.delta_paths = acc.deltas]

\* client.py:439-490, 499-508: consumer r of the per-run kind receives a line.
OwnLine(r, line) ==
    LET read == [r EXCEPT !.lines = Append(r.lines, line)]
        acc == ProcessLine(r.value_events, r.delta_paths, line)
    IN  IF DeadlineExceeded(now, r.start_time)
        THEN [read EXCEPT !.pc = "done", !.exit = "timeout",
                          !.result = Finalize(r.value_events, r.delta_paths),
                          !.value_events = Fallback(r.value_events, r.delta_paths)]
        ELSE CASE acc.ctl = "continue" ->
                    [read EXCEPT !.value_events = acc.values, !.delta_paths = acc.deltas]
               [] acc.ctl = "break" ->
                    [read EXCEPT !.pc = "done", !.exit = "completed",
                                 !.result = Finalize(acc.values, acc.deltas),
                                 !.value_events = Fallback(acc.values, acc.deltas),
                                 !.delta_paths = acc.deltas]
               [] acc.ctl = "raise" ->
                    [read EXCEPT !.pc = "done", !.exit = "exception",
                                 !.result = StreamError(acc.values, acc.deltas),
                                 !.value_events = acc.values, !.delta_paths = acc.deltas]

\* client.py:58 and 432: both consumers are called, each reads the clock.
PairStart ==
    /\ \A i \in Invocations : runs[i].pc = "idle"
    /\ runs' = [i \in Invocations |->
                  [runs[i] EXCEPT !.pc = "connecting", !.start_time = now]]
    /\ UNCHANGED others

\* client.py:62-64 and 436-438: the stream answers with a success status.
PairOpen ==
    /\ \A i \in Invocations : runs[i].pc = "connecting"
    /\ runs' = [i \in Invocations |-> [runs[i] EXCEPT !.pc = "reading", !.opened = now]]
    /\ UNCHANGED others

\* client.py:63, 120-122 and 437, 492-494: the stream answers with an error status.
PairBadStatus ==
    /\ \A i \in Invocations : runs[i].pc = "connecting"
    /\ runs' = [i \in Invocations |->
                  [runs[i] EXCEPT !.pc = "done", !.exit = "badstatus",
                                  !.result = IF i = PoolConsumer THEN PoolError
                                             ELSE StreamError(runs[i].value_events,
                                                              runs[i].delta_paths)]]
    /\ UNCHANGED others

\* client.py:62, 66, 123-125 and 436, 439, 495-497: the transport raises.
PairFault ==
    /\ \A i \in Invocations : runs[i].pc \in {"connecting", "reading"}
    /\ runs' = [i \in Invocations |->
                  [runs[i] EXCEPT !.pc = "done", !.exit = "fault",
                                  !.result = IF i = PoolConsumer THEN PoolError
                                             ELSE StreamError(runs[i].value_events,
                                                              runs[i].delta_paths)]]
    /\ UNCHANGED others

\* client.py:66-118 and 439-490: the stream delivers a line.
PairLine(line) ==
    /\ \A i \in Invocations : runs[i].pc = "reading"
    /\ \A i \in Invocations : Len(runs[i].lines) < MaxConcurrentLines
    /\ runs' = [i \in Invocations |->
                  IF i = PoolConsumer THEN PoolLine(runs[i], line)
                  ELSE OwnLine(runs[i], line)]
    /\ UNCHANGED others

\* client.py:66, 126-134 and 439, 499-508: the stream ends.
PairEnd ==
    /\ \A i \in Invocations : runs[i].pc = "reading"
    /\ runs' = [i \in Invocations |->
                  LET v == runs[i].value_events
                      d == runs[i].delta_paths
                  IN  IF i = PoolConsumer
                      THEN [runs[i] EXCEPT !.pc = "done", !.exit = "eof",
                                           !.result = PoolOutput(v, d),
                                           !.value_events = PoolFallback(v, d)]
                      ELSE [runs[i] EXCEPT !.pc = "done", !.exit = "eof",
                                           !.result = Finalize(v, d),
                                           !.value_events = Fallback(v, d)]]
    /\ UNCHANGED others

NextPair ==
    \/ ConcurrentTick
    \/ PairStart
    \/ PairOpen
    \/ PairBadStatus
    \/ PairFault
    \/ \E line \in Lines : PairLine(line)
    \/ PairEnd

SpecPair == InitConcurrent /\ [][NextPair]_vars

(***************************************************************************)
(* Registration alone: register_tools over a configuration, for every      *)
(* schema and every title.                                                 *)
(***************************************************************************)
InitRegistration ==
    /\ ipc = "registering"
    /\ posts = 0
    /\ submission = NoSubmission
    /\ answer = NoAnswer
    /\ runs = NoRuns
    /\ streams = 0
    /\ conn = "none"
    /\ todo = RegistrationConfigs
    /\ tools_cache = EmptyMap
    /\ registered = {}
    /\ tool_details = NoMetadata
    /\ mcp_tools = <<>>
    /\ tool = NoField
    /\ kwargs = <<>>
    /\ processed_inputs = EmptyMap
    /\ request = NoRequest
    /\ pc = "idle"
    /\ now = 0
    /\ start_time = 0
    /\ value_events = EmptyMap
    /\ delta_paths = EmptyMap
    /\ lines = <<>>
    /\ exit = "none"
    /\ result = NoResult

NextRegistration ==
    \/ \E meta \in Metadata \cup TitledMetadata : RegisterTool(meta)
    \/ StartServing

SpecRegistration == InitRegistration /\ [][NextRegistration]_vars

(***************************************************************************)
(* What the stream delivered, read off the lines themselves.               *)
(***************************************************************************)
IsEvent(l) == l.prefix /\ l.body = "object"
IsValueEvent(l) == IsEvent(l) /\ l.type = "value"
IsDeltaEvent(l) == IsEvent(l) /\ l.type = "delta"
IsTextDelta(l) == IsDeltaEvent(l) /\ l.dtype = "text" /\ l.dvalue.t = "str"
IsStatusCompleted(l) == IsEvent(l) /\ l.type = "status" /\ l.status = "completed"
IsCompletionEvent(l) == IsEvent(l) /\ l.type = CompletedType
CarriesOutput(l) == l.data = "object" /\ l.output # NoValue
IsCompletionSignal(l) == IsStatusCompleted(l) \/ IsCompletionEvent(l)
IsMalformed(l) == l.prefix /\ l.body = "malformed"
WellFormed(l) == ~IsMalformed(l)

\* The path an event names, with the sentinel of its kind when it names none.
ValuePathOf(l) == IF l.path = NoField THEN "unknown_path" ELSE l.path
DeltaPathOf(l) == IF l.path = NoField THEN "" ELSE l.path

LastLine == lines[Len(lines)]
\* The lines that were received within the budget: all but a late last line.
Processed == IF exit = "timeout" THEN SubSeq(lines, 1, Len(lines) - 1) ELSE lines

\* Some processed event stored an entry in the values map.
StoredAValue ==
    \E i \in DOMAIN Processed :
        \/ IsValueEvent(Processed[i])
        \/ IsCompletionEvent(Processed[i]) /\ CarriesOutput(Processed[i])

ValuePaths(h) == { ValuePathOf(h[i]) : i \in { j \in DOMAIN h : IsValueEvent(h[j]) } }
DeltaPaths(h) == { DeltaPathOf(h[i]) : i \in { j \in DOMAIN h : IsDeltaEvent(h[j]) } }
DeltaOnlyPaths == DeltaPaths(Processed) \ ValuePaths(Processed)

Returned == pc = "done"
ReturnedOutput == Returned /\ "output" \in DOMAIN result
Finalized == Returned /\ exit \in {"eof", "completed", "timeout"}

(***************************************************************************)
(* C1: in a run that returns an output, if some entry was stored in the    *)
(* values map then no path that received only delta events is in the       *)
(* output: the deltas are copied only when the values map is empty.        *)
(***************************************************************************)
C1_DeltasOnlyAsFallback ==
    (ReturnedOutput /\ StoredAValue) =>
        \A p \in DeltaOnlyPaths : p \notin DOMAIN result.output

C1_Witness ==
    /\ ReturnedOutput
    /\ StoredAValue
    /\ "c" \in DeltaOnlyPaths
    /\ DOMAIN result.output = {"a"}

(***************************************************************************)
(* C2: a stream of text delta events only that then ends returns           *)
(* {output: m}, m having exactly the delta paths, each mapped to the       *)
(* concatenation of its fragments in arrival order.                        *)
(***************************************************************************)
RECURSIVE ConcatAt(_, _)
ConcatAt(h, p) ==
    IF h = <<>> THEN <<>>
    ELSE (IF DeltaPathOf(Head(h)) = p THEN Head(h).dvalue.s ELSE <<>>)
            \o ConcatAt(Tail(h), p)

OnlyTextDeltas == \A i \in DOMAIN lines : IsTextDelta(lines[i])

\* C2: only text deltas, then end of stream: the output is the per-path concatenation.
C2_DeltaOnlyStream ==
    (Returned /\ exit = "eof" /\ OnlyTextDeltas) =>
        result = [output |-> [p \in DeltaPaths(lines) |-> JStr(ConcatAt(lines, p))]]

C2_Witness ==
    /\ Returned /\ exit = "eof" /\ OnlyTextDeltas
    /\ Len(lines) = 2
    /\ lines[1].path = "c" /\ lines[1].dvalue = JStr(<<"Hel">>)
    /\ lines[2].path = "c" /\ lines[2].dvalue = JStr(<<"lo">>)
    /\ result = [output |-> [c |-> JStr(<<"Hel", "lo">>)]]

(***************************************************************************)
(* C3: a stream of value events only, closed by `status completed`,        *)
(* returns {output: m}, m having exactly the paths of the value events,    *)
(* each mapped to the value of the last event received for it.             *)
(***************************************************************************)
LastValueAt(h, p) ==
    LET at == { i \in DOMAIN h : ValuePathOf(h[i]) = p }
        last == CHOOSE i \in at : \A j \in at : j <= i
    IN  h[last].value

ValuesThenCompleted ==
    /\ Len(lines) >= 1
    /\ IsStatusCompleted(LastLine)
    /\ \A i \in 1..(Len(lines) - 1) :
            IsValueEvent(lines[i]) /\ lines[i].value # NoValue

\* C3: only value events, then status completed: the output is the last value per path.
C3_ValueOnlyStream ==
    (Returned /\ exit = "completed" /\ ValuesThenCompleted) =>
        LET h == SubSeq(lines, 1, Len(lines) - 1)
        IN  result = [output |-> [p \in ValuePaths(h) |-> LastValueAt(h, p)]]

C3_Witness ==
    /\ Returned /\ exit = "completed" /\ ValuesThenCompleted
    /\ Len(lines) = 3
    /\ lines[1].path = "a" /\ lines[2].path = "a"
    /\ lines[1].value # lines[2].value
    /\ result = [output |-> [a |-> lines[2].value]]

(***************************************************************************)
(* C4: a completion signal (`status completed` or the run-completed        *)
(* event) is the last line the consumer reads: once it is received the     *)
(* call has returned, so no later line can change the result.              *)
(***************************************************************************)
C4_StopsAtCompletion ==
    \A i \in DOMAIN lines :
        IsCompletionSignal(lines[i]) => (i = Len(lines) /\ Returned)

C4_Witness ==
    /\ Returned /\ exit = "completed"
    /\ Len(lines) < MaxLines
    /\ IsStatusCompleted(LastLine)
    /\ "output" \in DOMAIN result

(***************************************************************************)
(* C5: processing a run-completed event stores data.output at              *)
(* values["completion_output"] exactly when the event carries a nested     *)
(* data.output; without one no key is added; in both cases reading stops.  *)
(***************************************************************************)
CompletionEventStep ==
    /\ pc = "reading"
    /\ Len(lines') = Len(lines) + 1
    /\ IsCompletionEvent(lines'[Len(lines')])
    /\ exit' # "timeout"

\* C5: completion_output is stored iff the event carries data.output; reading stops.
C5_CompletionOutput ==
    [][ CompletionEventStep =>
            LET ev == lines'[Len(lines')] IN
            /\ pc' = "done"
            /\ exit' = "completed" =>
                 IF CarriesOutput(ev)
                 THEN value_events' = Put(value_events, "completion_output", ev.output)
                 ELSE /\ "completion_output" \notin DOMAIN value_events'
                      /\ value_events' = Fallback(value_events, delta_paths)
      ]_vars

C5_Witness ==
    /\ Returned /\ exit = "completed"
    /\ Len(lines) = 2
    /\ IsValueEvent(lines[1])
    /\ IsCompletionEvent(LastLine) /\ CarriesOutput(LastLine)
    /\ DOMAIN result.output = {ValuePathOf(lines[1]), "completion_output"}
    /\ result.output["completion_output"] = LastLine.output

(***************************************************************************)
(* C6: a line received after the deadline is not applied: the consumer     *)
(* stops and returns {output: ...} built from what was accumulated before  *)
(* that line, never an error.                                              *)
(***************************************************************************)
LateLineStep ==
    /\ pc = "reading"
    /\ Len(lines') = Len(lines) + 1
    /\ now - start_time > max_wait_time

\* C6: a line received after the deadline ends the run with the output as it was.
C6_LateLineNotApplied ==
    [][ LateLineStep =>
            /\ pc' = "done"
            /\ result' = [output |-> IF DOMAIN value_events = {}
                                     THEN delta_paths ELSE value_events]
      ]_vars

C6_Witness ==
    /\ Returned /\ exit = "timeout"
    /\ Len(lines) = 2
    /\ IsValueEvent(lines[1]) /\ lines[1].path = "a"
    /\ IsValueEvent(lines[2]) /\ lines[2].path = "c"
    /\ DOMAIN result = {"output"}
    /\ DOMAIN result.output = {"a"}

(***************************************************************************)
(* C7: when the connection fails (a non-success status at open, or a       *)
(* transport fault at any point) the result has an `error` key and no      *)
(* `output` key: nothing that was accumulated is returned.                 *)
(***************************************************************************)
C7_ConnectionFailure ==
    exit \in {"badstatus", "fault"} => (Returned /\ DOMAIN result = {"error"})

C7_Witness ==
    /\ exit = "fault"
    /\ Len(lines) = 2
    /\ IsValueEvent(lines[1]) /\ IsTextDelta(lines[2])
    /\ DOMAIN value_events # {} /\ DOMAIN delta_paths # {}
    /\ DOMAIN result = {"error"}

(***************************************************************************)
(* C8: a `data:` line with malformed JSON is skipped: the result of a run  *)
(* is the result of the same lines with the malformed ones removed.        *)
(***************************************************************************)
RECURSIVE Replay(_, _, _)
Replay(v, d, h) ==
    IF h = <<>> THEN Acc(v, d, "continue")
    ELSE LET a == ProcessLine(v, d, Head(h))
         IN  IF a.ctl = "continue" THEN Replay(a.values, a.deltas, Tail(h)) ELSE a

\* The result of a run over the lines h that the stream then leaves by `ending`.
ResultOf(h, ending) ==
    LET a == Replay(EmptyMap, EmptyMap, h)
    IN  CASE a.ctl = "raise" -> StreamError(a.values, a.deltas)
          [] a.ctl = "break" -> Finalize(a.values, a.deltas)
          [] OTHER -> IF ending \in {"fault", "badstatus"}
                      THEN StreamError(a.values, a.deltas)
                      ELSE Finalize(a.values, a.deltas)

\* C8: the result is the result of the processed lines without the malformed ones.
C8_MalformedSkipped ==
    Returned => result = ResultOf(SelectSeq(Processed, WellFormed), exit)

C8_Witness ==
    /\ Returned /\ exit = "eof"
    /\ Len(lines) = 3
    /\ IsValueEvent(lines[1]) /\ IsMalformed(lines[2]) /\ IsValueEvent(lines[3])
    /\ lines[1].path = "a" /\ lines[3].path = "c"
    /\ DOMAIN result = {"output"}
    /\ DOMAIN result.output = {"a", "c"}

(***************************************************************************)
(* C9: a run that reaches finalization (end of stream, completion signal   *)
(* or timeout) with nothing in the values map and nothing in the deltas    *)
(* map returns exactly {output: {}}.                                       *)
(***************************************************************************)
C9_EmptyOutput ==
    (Finalized /\ ~StoredAValue /\ DOMAIN delta_paths = {}) =>
        result = [output |-> EmptyMap]

C9_Witness ==
    /\ Finalized /\ exit = "completed"
    /\ ~StoredAValue /\ DOMAIN delta_paths = {}
    /\ Len(lines) = 2
    /\ result = [output |-> EmptyMap]

(***************************************************************************)
(* C10: for a tool whose cached wrapping mode is true, a call with flat    *)
(* arguments A submits a run whose `inputs` is the single-key mapping      *)
(* {kwargs: A'}, A' being the cleaned form of A.                           *)
(***************************************************************************)
FlatArguments(kw) == kw # <<>> /\ \A i \in DOMAIN kw : Strip(kw[i].k) # KwargsKey
Submitted == ipc \in {"posted", "streaming", "returned"}
WrappingTool(t) == t \in DOMAIN tools_cache /\ tools_cache[t].requires_kwargs_wrapper

\* C10: a wrapping-mode tool called with flat arguments submits inputs {kwargs: A'}.
C10_WrappedInputsSent ==
    (Submitted /\ WrappingTool(tool) /\ FlatArguments(kwargs)) =>
        request.inputs = Put(EmptyMap, KwargsKey, ADict(CleanArgs(kwargs)))

(***************************************************************************)
(* C11: for a tool whose cached wrapping mode is false, the `inputs` of    *)
(* the run submission equal the cleaned caller arguments unchanged, for    *)
(* every argument mapping, a lone `kwargs` key with a mapping value        *)
(* included.                                                               *)
(***************************************************************************)
PlainTool(t) == t \in DOMAIN tools_cache /\ ~tools_cache[t].requires_kwargs_wrapper

\* C11: a tool without wrapping mode submits the cleaned arguments as they are.
C11_PlainInputsUnchanged ==
    (Submitted /\ PlainTool(tool)) => request.inputs = ProcessInputs(kwargs)

(***************************************************************************)
(* C12: when the arguments are exactly one key `kwargs` with a string      *)
(* value, the working argument set is the mapping parsed from the string   *)
(* (backticks stripped) if it starts with {, ends with } and parses, the   *)
(* `kwargs` wrapper being discarded; otherwise it is the original          *)
(* single-key mapping unchanged, and the call goes on to the submission.   *)
(***************************************************************************)
SingleStringKwargs(kw) == Len(kw) = 1 /\ kw[1].k = KwargsKey /\ kw[1].v.t = "str"
\* The text is a JSON object: braces around members.
ParsesAsObject(text) ==
    /\ Len(text) >= 2
    /\ text[1] = "{" /\ text[Len(text)] = "}"
    /\ \A i \in 2..(Len(text) - 1) : text[i] \in JsonMembers

\* C12: {kwargs: <string>} is replaced by the parsed mapping, or kept as it is.
C12_KwargsString ==
    (Submitted /\ SingleStringKwargs(kwargs)) =>
        LET text == Strip(kwargs[1].v.s)
        IN  IF ParsesAsObject(text)
            THEN processed_inputs =
                    [k \in { <<text[i]>> : i \in 2..(Len(text) - 1) } |-> ANum(<<"5">>)]
            ELSE processed_inputs = [k \in {KwargsKey} |-> kwargs[1].v]

C12_Witness ==
    /\ Submitted
    /\ kwargs = <<Arg(KwargsKey, AStr(<<Backtick, "{", "x", "}", Backtick>>))>>
    /\ processed_inputs = [k \in {<<"x">>} |-> ANum(<<"5">>)]
    /\ KwargsKey \notin DOMAIN processed_inputs

(***************************************************************************)
(* C13: for every other argument mapping, the cleaned mapping has each key *)
(* without its leading and trailing backticks, each string value without   *)
(* its leading and trailing backticks, and each non-string value           *)
(* unchanged.                                                              *)
(***************************************************************************)
CleanValue(v) == IF v.t = "str" THEN AStr(Strip(v.s)) ELSE v
\* No later argument has the same name once the backticks are removed.
LastOfItsName(kw, i) == \A j \in DOMAIN kw : j > i => Strip(kw[j].k) # Strip(kw[i].k)

\* C13: keys and string values lose their backticks, other values are kept.
C13_BackticksRemoved ==
    (Submitted /\ ~SingleStringKwargs(kwargs)) =>
        /\ DOMAIN processed_inputs = { Strip(kwargs[i].k) : i \in DOMAIN kwargs }
        /\ \A i \in DOMAIN kwargs :
              LastOfItsName(kwargs, i) =>
                  processed_inputs[Strip(kwargs[i].k)] = CleanValue(kwargs[i].v)

C13_Witness ==
    /\ Submitted
    /\ kwargs = <<Arg(<<Backtick, "name", Backtick>>, AStr(<<Backtick, "Bob", Backtick>>))>>
    /\ processed_inputs = [k \in {<<"name">>} |-> AStr(<<"Bob">>)]

(***************************************************************************)
(* C14: at resolution the wrapping mode is true exactly when the schema's  *)
(* top-level properties are the one property `kwargs` and that property    *)
(* declares nested `properties`; the nested properties are then the        *)
(* effective parameter list; in every other case the mode is false and the *)
(* top-level properties are the list.                                      *)
(***************************************************************************)
\* The last registration added a tool, and tool_details is its metadata.
LastRegistered == mcp_tools # <<>> /\ tool_details.data
LastTool == mcp_tools[Len(mcp_tools)]
OnlyKwargs(schema) == schema.props = {"kwargs"}
DeclaresNested(schema) == OnlyKwargs(schema) /\ schema.nested # "absent"
DeclaresNonEmptyNested(schema) == OnlyKwargs(schema) /\ schema.nested = "some"

\* C14: wrapping mode iff the lone `kwargs` property declares nested properties.
C14_WrappingMode ==
    LastRegistered =>
        LET schema == tool_details.schema
        IN  /\ tools_cache[LastTool.id].requires_kwargs_wrapper = DeclaresNested(schema)
            /\ LastTool.parameters =
                 IF DeclaresNested(schema) THEN NestedProperties(schema) ELSE schema.props

\* C14 as amended: wrapping mode iff the nested properties are declared and not empty.
C14_WrappingModeNonEmpty ==
    LastRegistered =>
        LET schema == tool_details.schema
        IN  /\ tools_cache[LastTool.id].requires_kwargs_wrapper =
                 DeclaresNonEmptyNested(schema)
            /\ LastTool.parameters =
                 IF DeclaresNonEmptyNested(schema) THEN {"a", "b"} ELSE schema.props

C14_Witness ==
    /\ LastRegistered
    /\ tool_details.schema = [props |-> {"kwargs"}, nested |-> "some"]
    /\ tools_cache[LastTool.id].requires_kwargs_wrapper
    /\ LastTool.parameters = {"a", "b"}

(***************************************************************************)
(* C15: for every title and every tool ID the derived tool name consists   *)
(* only of lowercase letters and underscores and is never empty; when no   *)
(* letter of the title survives, the name is the synthetic name made of    *)
(* the last 8 characters of the ID.                                        *)
(***************************************************************************)
LowercaseOrUnderscore == {"a", "b", "t", "_", "wordware_tool_"}
NoLetterIn(title) == \A i \in DOMAIN title : title[i] \notin {"A", "b"}
SyntheticName(tool_id) == <<"wordware_tool_">> \o IdText(tool_id)

\* C15: the tool name is a non-empty text of lowercase letters and underscores.
C15_ToolName ==
    LastRegistered =>
        /\ LastTool.name # <<>>
        /\ \A i \in DOMAIN LastTool.name : LastTool.name[i] \in LowercaseOrUnderscore
        /\ NoLetterIn(tool_details.title) => LastTool.name = SyntheticName(LastTool.id)

(***************************************************************************)
(* C16: once a tool ID has a descriptor in the cache, no later operation   *)
(* changes that entry.                                                     *)
(***************************************************************************)
\* C16: a cache entry, once written, stays as it is.
C16_CacheEntryStable ==
    [][ \A t \in DOMAIN tools_cache :
            t \in DOMAIN tools_cache' /\ tools_cache'[t] = tools_cache[t] ]_vars

(***************************************************************************)
(* C17: every invocation sends at most one run submission and opens at     *)
(* most one stream connection, on every path; the stream is opened exactly *)
(* once, and only after a submission that was answered with a stream link. *)
(***************************************************************************)
StreamLinked == submission = StreamLinkResponse
CallReturned == ipc = "returned"

\* C17: one POST and one stream at most, the stream only after a linked submission.
C17_OneRunOneStream ==
    /\ posts <= 1
    /\ streams <= 1
    /\ streams = 1 => StreamLinked
    /\ (CallReturned /\ StreamLinked) => streams = 1

C17_Witness ==
    /\ CallReturned
    /\ StreamLinked
    /\ posts = 1
    /\ streams = 1
    /\ "output" \in DOMAIN result

(***************************************************************************)
(* C18: on every exit path of the consumer the stream connection is        *)
(* released before the result is returned: whenever the consumer or the    *)
(* invocation has returned, the connection is not open.                    *)
(***************************************************************************)
C18_ConnectionReleased == (Returned \/ CallReturned) => conn # "open"

C18_Witness ==
    /\ Returned
    /\ exit = "timeout"
    /\ streams = 1
    /\ conn = "closed"
    /\ "output" \in DOMAIN result

(***************************************************************************)
(* C19: when the run submission fails the invocation returns a result with *)
(* an `error` key, opens no stream and does not submit again; for a        *)
(* response without data.links.stream the result also carries the raw      *)
(* response, and for a non-success status the error text carries the       *)
(* status code and the response body.                                      *)
(***************************************************************************)
SubmissionFailed == CallReturned /\ submission # NoSubmission /\ ~StreamLinked
Answered2xx == submission.kind = "response" /\ submission.status \in 200..299
LacksStreamLink ==
    Answered2xx /\ submission.body \in {"no_data", "empty_link", "null_data"}
NonSuccessStatus == submission.kind = "response" /\ submission.status \notin 200..299
TextHas(text, part) == \E i \in DOMAIN text : text[i] = part

\* C19: a failed submission gives {error}, with the response or the status and body.
C19_SubmissionFailure ==
    SubmissionFailed =>
        /\ "error" \in DOMAIN result
        /\ streams = 0
        /\ posts = 1
        /\ LacksStreamLink =>
              ("response" \in DOMAIN result /\ result.response = submission.body)
        /\ NonSuccessStatus =>
              /\ TextHas(result.error, ToString(submission.status))
              /\ TextHas(result.error, submission.body)

(***************************************************************************)
(* C20: the caller-facing answer follows the priority order: a result with *)
(* `error` surfaces that error text; otherwise, when the output has        *)
(* `completion_output`, the answer is made of that payload alone, a string *)
(* verbatim and a structured payload as the whole final object, and no     *)
(* other output path contributes.                                          *)
(***************************************************************************)
HasCompletionOutput ==
    "output" \in DOMAIN result /\ "completion_output" \in DOMAIN result.output
CompletionPayload == result.output["completion_output"]
SurfacesError == answer.kind = "error" /\ answer.text = result.error

\* C20: error first, then completion_output alone, a structured one as a whole.
C20_AnswerPriority ==
    CallReturned =>
        IF "error" \in DOMAIN result THEN SurfacesError
        ELSE HasCompletionOutput =>
                /\ answer.body = CompletionPayload
                /\ answer.kind = IF CompletionPayload.t = "str" THEN "verbatim" ELSE "json"
                /\ answer.shown = {}

\* C20 as amended: a structured payload with a `result` key is answered by
\* that member alone, any other structured payload as the whole object.
C20_AnswerPriorityResult ==
    CallReturned =>
        IF "error" \in DOMAIN result THEN SurfacesError
        ELSE HasCompletionOutput =>
                /\ answer.shown = {}
                /\ CASE CompletionPayload.t = "str" ->
                           answer.kind = "verbatim" /\ answer.body = CompletionPayload
                     [] CompletionPayload = JObj(<<"result">>) ->
                           /\ answer.kind = "verbatim"
                           /\ answer.body = [t |-> "member", s |-> <<"result">>]
                     [] OTHER ->
                           answer.kind = "json" /\ answer.body = CompletionPayload

C20_Witness ==
    /\ CallReturned
    /\ DOMAIN result = {"output"}
    /\ DOMAIN result.output = {"a", "completion_output"}
    /\ CompletionPayload = JStr(<<"final">>)
    /\ answer = Answer("verbatim", JStr(<<"final">>), <<>>, {})

(***************************************************************************)
(* C21: when a result has no `error` and its output has no                 *)
(* `completion_output`, every path of the output contributes to the        *)
(* answer: none is dropped, whatever its name.                             *)
(***************************************************************************)
PlainOutput ==
    /\ CallReturned
    /\ "output" \in DOMAIN result
    /\ "completion_output" \notin DOMAIN result.output

\* C21: without error and completion_output the answer shows every output path.
C21_EveryPathShown == PlainOutput => answer.shown = DOMAIN result.output

(***************************************************************************)
(* C22: during registration of a list of tool IDs, a tool whose metadata   *)
(* call errors or whose payload lacks a `data` key is skipped, getting no  *)
(* cache entry and no registered tool, and every other tool of the list,   *)
(* before or after it, is still resolved and registered.                   *)
(***************************************************************************)
\* C22: a registration step takes the next ID; without `data` it changes
\* nothing else, with `data` it caches and registers that ID.
C22_FailedToolSkipped ==
    [][ todo' # todo =>
          /\ todo # <<>> /\ todo' = Tail(todo)
          /\ IF tool_details'.data
             THEN /\ Head(todo) \in DOMAIN tools_cache'
                  /\ Head(todo) \in registered'
                  /\ Len(mcp_tools') = Len(mcp_tools) + 1
                  /\ mcp_tools'[Len(mcp_tools')].id = Head(todo)
             ELSE UNCHANGED <<tools_cache, registered, mcp_tools>>
      ]_vars

\* The second of three configured entries was skipped, the first and the
\* third registered.
C22_Witness ==
    /\ todo = <<>>
    /\ tool_details.data
    /\ DOMAIN tools_cache = {"t1"}
    /\ registered = {"t1"}
    /\ Len(mcp_tools) = 2

(***************************************************************************)
(* C23: an invocation never propagates an exception to its caller: for     *)
(* every outcome of submission and streaming run_generic_tool returns a    *)
(* mapping with `error` or `output`, and the tool function returns a       *)
(* string.                                                                 *)
(***************************************************************************)
TextKinds == {"json", "error", "research", "notion", "general"}
ReturnsString ==
    \/ answer.kind \in TextKinds
    \/ answer.kind = "verbatim" /\ answer.body.t = "str"

\* C23: a returned call has a result with error or output, and a string answer.
C23_NoExceptionEscapes ==
    CallReturned =>
        /\ "error" \in DOMAIN result \/ "output" \in DOMAIN result
        /\ answer.kind # "raise"
        /\ ReturnsString

(***************************************************************************)
(* C24: invocations that run at once, their lines interleaved in any       *)
(* order, each return what they would return alone: the result of their    *)
(* own lines, with nothing of the other invocation in it.                  *)
(***************************************************************************)
\* The lines consumer r processed: the one that met the deadline is dropped.
RunProcessed(r) ==
    IF r.exit = "timeout" THEN SubSeq(r.lines, 1, Len(r.lines) - 1) ELSE r.lines

\* C24: the result of every returned invocation is the result of its own lines.
C24_RunsIsolated ==
    \A i \in DOMAIN runs :
        runs[i].pc = "done" =>
            runs[i].result = ResultOf(RunProcessed(runs[i]), runs[i].exit)

C24_Witness ==
    /\ DOMAIN runs = Invocations
    /\ \A i \in Invocations : runs[i].pc = "done" /\ runs[i].exit = "eof"
    /\ Len(runs[1].lines) = 2 /\ Len(runs[2].lines) = 1
    /\ \A n \in {1, 2} : runs[1].lines[n].type = "delta"
    /\ runs[2].lines[1].type = "value" /\ runs[2].lines[1].path = "c"
    /\ runs[1].result = [output |-> [c |-> JStr(<<"Hel", "Hel">>)]]
    /\ runs[2].result = [output |-> [c |-> JStr(<<"w">>)]]

(***************************************************************************)
(* C25: the deadline is evaluated only when a line is received.  The       *)
(* consumer times out only in a step that receives a line, and while no    *)
(* line arrives it stays reading, past the budget too, until the stream    *)
(* ends or the transport faults.                                           *)
(***************************************************************************)
BudgetSpent == DeadlineExceeded(now, start_time)

\* C25: a timeout is a step that receives a line; a silent stream keeps reading.
C25_DeadlineOnlyOnLine ==
    [][ /\ (exit # "timeout" /\ exit' = "timeout") => Len(lines') = Len(lines) + 1
        /\ (pc = "reading" /\ lines' = lines) =>
               \/ pc' = "reading"
               \/ pc' = "done" /\ exit' \in {"eof", "fault"}
      ]_vars

C25_Witness ==
    /\ pc = "reading"
    /\ lines = <<>>
    /\ BudgetSpent
    /\ now - start_time = MaxTicks * TickSeconds

(***************************************************************************)
(* C26: a delta event whose delta.type is not `text` is ignored: the       *)
(* result of a run is the result of the same lines with those events       *)
(* removed; a stream of such events alone returns an empty output.         *)
(***************************************************************************)
\* A delta event with an object `delta` of another type than text.
IsNonTextDelta(l) == IsDeltaEvent(l) /\ l.dtype \notin {"text", "nonobject"}

TextOnly(h) == SelectSeq(h, LAMBDA l : ~IsNonTextDelta(l))

\* C26: the result is the result of the processed lines without non-text deltas.
C26_NonTextDeltaIgnored ==
    Returned => result = ResultOf(TextOnly(Processed), exit)

(***************************************************************************)
(* C27: a line that is no value, delta, completed-status or run-completed  *)
(* event (an event of another type, a status event with another status, a  *)
(* line without the `data:` prefix, a line with an empty payload) leaves   *)
(* both accumulator maps as they were and the consumer reading.            *)
(***************************************************************************)
IsOtherLine(l) ==
    \/ ~l.prefix
    \/ l.prefix /\ l.body = "blank"
    \/ /\ IsEvent(l)
       /\ ~IsValueEvent(l) /\ ~IsDeltaEvent(l) /\ ~IsCompletionSignal(l)

\* The line this step receives within the budget is one of those lines.
ReceivesOtherLine ==
    /\ pc = "reading"
    /\ ~BudgetSpent
    /\ Len(lines') = Len(lines) + 1
    /\ IsOtherLine(lines'[Len(lines')])

\* C27: receiving such a line changes neither map and does not end the loop.
C27_OtherLinesIgnored ==
    [][ ReceivesOtherLine =>
            /\ pc' = "reading"
            /\ UNCHANGED <<value_events, delta_paths>>
      ]_vars

C27_Witness ==
    /\ pc = "reading"
    /\ Len(lines) = 3
    /\ IsValueEvent(lines[1])
    /\ IsEvent(lines[2]) /\ lines[2].type = "status" /\ lines[2].status = "running"
    /\ IsEvent(lines[3]) /\ lines[3].type = "ping"
    /\ ~BudgetSpent
    /\ DOMAIN value_events = {ValuePathOf(lines[1])}
    /\ DOMAIN delta_paths = {}

(***************************************************************************)
(* C28: the 180-second budget runs from the moment the stream is open, the *)
(* time spent connecting is not part of it: a line received less than 180  *)
(* seconds after the stream opened is processed, it does not time out.     *)
(***************************************************************************)
\* Invocation i receives, in this step, the line on which it times out.
TimesOut(i) == runs[i].pc = "reading" /\ runs'[i].exit = "timeout"

\* C28: a consumer times out only 180 seconds or more after its stream opened.
C28_BudgetFromOpen ==
    [][ \A i \in DOMAIN runs :
            TimesOut(i) => now - runs[i].opened >= max_wait_time
      ]_vars

(***************************************************************************)
(* C29: the consumer eventually returns whenever its stream eventually     *)
(* ends, faults, delivers a completion signal or a line after the          *)
(* deadline, and it returns in one of the terminal states.                 *)
(***************************************************************************)
TerminalExits == {"eof", "completed", "timeout", "fault", "badstatus", "exception"}

\* C29: every invocation whose stream settles returns, in a terminal state.
C29_EventuallyReturns ==
    <>(Returned /\ exit \in TerminalExits /\ result # NoResult)

C29_Witness ==
    /\ Returned
    /\ exit = "timeout"
    /\ Len(lines) = 1
    /\ result = [output |-> EmptyMap]

(***************************************************************************)
(* C30: the path `completion_output` is in a returned output only when a   *)
(* run-completed event that carries a nested output was processed in the   *)
(* run; a value event or a delta event never puts an entry there.          *)
(***************************************************************************)
ProcessedCompletionOutput ==
    \E i \in DOMAIN Processed :
        IsCompletionEvent(Processed[i]) /\ CarriesOutput(Processed[i])

\* C30: completion_output in the output comes from a run-completed event.
C30_CompletionOutputReserved ==
    (ReturnedOutput /\ "completion_output" \in DOMAIN result.output)
        => ProcessedCompletionOutput

(***************************************************************************)
(* C31: no content of a received line makes the consumer fail: whatever    *)
(* the payload, the line is at worst skipped and the run returns an        *)
(* output; an error result comes from a connection-level failure only.     *)
(***************************************************************************)
ConnectionFailure == exit \in {"fault", "badstatus"}

\* C31: a returned error result is the result of a connection-level failure.
C31_LinesNeverFatal ==
    (Returned /\ "error" \in DOMAIN result) => ConnectionFailure

(***************************************************************************)
(* C32: a tool invocation only reads the descriptor cache.  On every path  *)
(* of an invocation (success, submission error, stream error) the cache is *)
(* what it was before, and no metadata is fetched again: the wrapping mode *)
(* is the one stored when the tool was resolved.                           *)
(***************************************************************************)
Serving == ipc # "registering"

\* C32: once the server serves, no step writes the cache or fetches metadata.
C32_InvocationReadsCache ==
    [][ Serving => UNCHANGED <<tools_cache, tool_details, registered, mcp_tools>> ]_vars

C32_Witness ==
    /\ CallReturned
    /\ streams = 1
    /\ "error" \in DOMAIN result
    /\ tool \in DOMAIN tools_cache
    /\ tools_cache[tool].requires_kwargs_wrapper
    /\ request.tool_id = tool

(***************************************************************************)
(* C33: every tool registered with the dispatcher has, when it is          *)
(* registered and ever after, a cache entry under its tool ID whose        *)
(* requires_kwargs_wrapper is the classification of the tool's schema, so  *)
(* an invocation never uses the default mode of a missing entry.           *)
(***************************************************************************)
\* C33: the cache entry of every dispatcher tool carries the tool's own mode.
C33_RegisteredToolCached ==
    \A i \in DOMAIN mcp_tools :
        /\ mcp_tools[i].id \in DOMAIN tools_cache
        /\ tools_cache[mcp_tools[i].id].requires_kwargs_wrapper
              = mcp_tools[i].has_kwargs_wrapper

(***************************************************************************)
(* C34: every result of run_generic_tool and of the stream consumers has   *)
(* exactly one of the keys `error` and `output`, so the tool function,     *)
(* which tests `output` first, answers as if it tested `error` first.      *)
(***************************************************************************)
ExactlyOneKey(r) == ("error" \in DOMAIN r) # ("output" \in DOMAIN r)

\* The answer of a tool function that tests `error` before `output`.
MaterializeErrorFirst(r) ==
    IF "error" \in DOMAIN r THEN Answer("error", NoValue, r.error, {}) ELSE Materialize(r)

\* C34: a result has one of error and output, and the order of the tests is moot.
C34_ErrorXorOutput ==
    /\ result # NoResult => ExactlyOneKey(result)
    /\ \A i \in DOMAIN runs : runs[i].result # NoResult => ExactlyOneKey(runs[i].result)
    /\ CallReturned => answer = MaterializeErrorFirst(result)

C34_Witness ==
    /\ CallReturned
    /\ DOMAIN result = {"error", "response"}
    /\ answer.kind = "error"
    /\ streams = 0

(***************************************************************************)
(* C35: run_generic_tool sends as `inputs` the mapping it was given; when  *)
(* that mapping has the one key `kwargs` and its value is a mapping, it    *)
(* sends the inner mapping; a lone `kwargs` key with another value is      *)
(* sent as it is.                                                          *)
(***************************************************************************)
\* The mapping the tool function passes to run_generic_tool.
GivenInputs == FinalInputs(tools_cache, tool, processed_inputs)
LoneKwargsMapping(inputs) ==
    DOMAIN inputs = {KwargsKey} /\ inputs[KwargsKey].t = "dict"

\* C35: the submitted inputs are the given ones, or the mapping under a lone kwargs.
C35_UnwrapRule ==
    Submitted =>
        request.inputs =
            IF LoneKwargsMapping(GivenInputs) THEN GivenInputs[KwargsKey].m ELSE GivenInputs

C35_Witness ==
    /\ Submitted
    /\ PlainTool(tool)
    /\ kwargs = <<Arg(KwargsKey, ANum(<<"5">>))>>
    /\ request.inputs = Put(EmptyMap, KwargsKey, ANum(<<"5">>))

(***************************************************************************)
(* C36: the two stream consumers are equivalent: given the same lines at   *)
(* the same times and the same faults, they return the same result.        *)
(***************************************************************************)
\* C36: the two consumers return together, and return the same result.
C36_ConsumersEquivalent ==
    DOMAIN runs = Invocations =>
        /\ runs[PoolConsumer].pc = runs[OwnConsumer].pc
        /\ runs[PoolConsumer].exit = runs[OwnConsumer].exit
        /\ runs[PoolConsumer].result = runs[OwnConsumer].result

C36_Witness ==
    /\ DOMAIN runs = Invocations
    /\ \A i \in Invocations : runs[i].pc = "done" /\ runs[i].exit = "timeout"
    /\ \A i \in Invocations : Len(runs[i].lines) = 2 /\ runs[i].lines[1].type = "delta"
    /\ \A i \in Invocations : runs[i].result = [output |-> [c |-> JStr(<<"Hel">>)]]
    /\ now - runs[PoolConsumer].start_time > max_wait_time

====
